---- MODULE Spec2Model ----
(***************************************************************************)
(* Spot: a relay in front of the Spotify "currently playing" endpoint.     *)
(* The model covers src/server.js: the request gate (rateLimit and         *)
(* requireApiAccess, mounted on /api), the in-memory token cache           *)
(* (getAccessToken), the fetcher (fetchNowPlaying, mapNowPlaying) and the  *)
(* three /api route handlers.                                              *)
(*                                                                         *)
(* One inbound request occupies a slot.  Everything a request does between *)
(* two awaits is one action: Express runs the middleware chain and the     *)
(* handler up to its first pending fetch in one event-loop turn.           *)
(***************************************************************************)
EXTENDS Integers, Sequences, FiniteSets, TLC

\* ------------------------------------------------------------------ bounds
MaxInflight == 2        \* requests in flight at the same time
MaxRequests == 2        \* requests received in one behaviour of Spec
MaxTicks == 3           \* clock readings after the first one

\* ------------------------------------------------------- program constants
RATE_LIMIT_WINDOW_MS == 60000
RATE_LIMIT_MAX == 120
SAFETY_MARGIN_MS == 30000

\* ------------------------------------------------------------ JS values
Undefined == "<undefined>"
Null == "<null>"

\* JS truthiness of a string-or-absent value
Truthy(v) == v # Undefined /\ v # Null /\ v # ""

Has(d, f) == f \in DOMAIN d

\* ------------------------------------------------------------ input sets
TickMs == RATE_LIMIT_WINDOW_MS \div 2
StartMs == TickMs
EndMs == StartMs + MaxTicks * TickMs

Slots == 1..MaxInflight

\* req.ip and req.socket.remoteAddress of the inbound connections
Clients == { [ip |-> "10.0.0.1", remoteAddress |-> "10.0.0.1"],
             [ip |-> Undefined, remoteAddress |-> "10.0.0.2"] }

\* req.path as the middleware mounted on /api sees it
HealthPath == "/health"
JsonPath == "/now-playing"
TextPath == "/now-playing.txt"
Paths == {HealthPath, JsonPath, TextPath}
\* a path under /api for which no route is registered
OtherPath == "/other"

\* process.env.API_KEY
Secret == "s3cret"
ApiKeys == {Undefined, Secret}

\* the Authorization header of a request
AuthHeaders == {Undefined, "Bearer s3cret", "Bearer wrong", "s3cret"}

\* ------------------------------------------------- upstream answer sets
TokenStatuses == {200, 400, 500}
TokenDatas == { [access_token |-> "tokA", expires_in |-> 60],
                [access_token |-> "tokB", expires_in |-> 90],
                [access_token |-> "tokA"],
                [expires_in |-> 60],
                [access_token |-> "", expires_in |-> 60],
                [access_token |-> "tokB", expires_in |-> 0] }

\* A JSON value where the source expects a number: the integer n, the number
\* n + 0.5, or a string.
Num(n) == [number |-> n]
Half(n) == [number |-> n, andHalf |-> TRUE]
Text(str) == [string |-> str]

Item1 == [ name |-> "Song", id |-> "id1", duration_ms |-> Num(200000),
           artists |-> << [name |-> "Artist A"], [name |-> "Artist B"] >>,
           album |-> [name |-> "Album", images |-> << [url |-> "http://img/1"] >>],
           external_urls |-> [spotify |-> "http://open/1"] ]
Item2 == [ id |-> "id2" ]
Item3 == [ id |-> "id3", name |-> "Odd", duration_ms |-> Num(-1) ]
Item4 == [ id |-> "id4", duration_ms |-> Text("abc") ]

JsonNull == [isNull |-> TRUE]
PlayStatuses == {200, 204, 401, 500}
PlayDatas == { JsonNull,
               [is_playing |-> TRUE],
               [is_playing |-> FALSE, progress_ms |-> Num(5)],
               [is_playing |-> TRUE, progress_ms |-> Num(1000), item |-> Item1],
               [is_playing |-> FALSE, progress_ms |-> Num(1000), item |-> Item1],
               [is_playing |-> TRUE, item |-> Item2],
               [is_playing |-> TRUE, progress_ms |-> Num(-5), item |-> Item3],
               [is_playing |-> TRUE, progress_ms |-> Half(1), item |-> Item4] }

\* ------------------------------------------------------------------ state
VARIABLES
    PUBLIC_MODE,    \* configuration flag, fixed at start-up
    API_KEY,        \* configured shared secret, fixed at start-up
    clock,          \* the value Date.now() returns
    tokenCache,     \* [accessToken, expiresAt]
    limiterStore,   \* routeKey -> [count, resetAt], for the keys present
    req,            \* slot -> the request in it and the position of its handler
    sent,           \* the request answered by the step just taken, if any
    nreq            \* requests received so far, saturating at MaxRequests

vars == <<PUBLIC_MODE, API_KEY, clock, tokenCache, limiterStore, req, sent, nreq>>

NoData == [none |-> TRUE]

IdleReq == [ pc |-> "idle",
             client |-> [ip |-> Undefined, remoteAddress |-> Undefined],
             path |-> "", authorization |-> Undefined,
             now |-> 0, seen |-> [accessToken |-> Null, expiresAt |-> 0],
             accessToken |-> Undefined,
             tokenStatus |-> 0, tokenData |-> NoData,
             playStatus |-> 0, playData |-> NoData,
             status |-> 0, body |-> NoData,
             cacheControl |-> "", contentType |-> "",
             log |-> << >> ]

Init ==
    /\ PUBLIC_MODE \in BOOLEAN
    /\ API_KEY \in ApiKeys
    /\ clock = StartMs
    /\ tokenCache = [accessToken |-> Null, expiresAt |-> 0]
    /\ limiterStore = [k \in {} |-> [count |-> 0, resetAt |-> 0]]
    /\ req = [s \in Slots |-> IdleReq]
    /\ sent = IdleReq
    /\ nreq = 0

\* ------------------------------------------------------------ responses
\* res.set("Cache-Control", "no-store")
noStore(r) == [r EXCEPT !.cacheControl = "no-store"]

\* res.status(code).json(body) / res.send(body): the response leaves
Send(r, code, body) ==
    [r EXCEPT !.pc = "done", !.status = code, !.body = body,
              !.log = Append(@, "send")]

Logged(r, ev) == [r EXCEPT !.log = Append(@, ev)]

\* ----------------------------------------------------------- request gate
\* variant: public mode allows every request, secret or not
AccessAllowed_PublicWins(authorization) ==
    LET auth == IF Truthy(authorization) THEN authorization ELSE ""
    IN  \/ PUBLIC_MODE
        \/ (Truthy(API_KEY) /\ auth = "Bearer " \o API_KEY)

AccessAllowed(authorization) ==
    LET auth == IF Truthy(authorization) THEN authorization ELSE ""
    IN  \/ (PUBLIC_MODE /\ ~Truthy(API_KEY))
        \/ (Truthy(API_KEY) /\ auth = "Bearer " \o API_KEY)

\* variant: the health route is exempt from access control
requireApiAccess_HealthOpen(r) ==
    LET r1 == Logged(r, "requireApiAccess")
    IN  IF r.path = HealthPath \/ AccessAllowed(r.authorization)
        THEN [next |-> TRUE, r |-> r1]
        ELSE [next |-> FALSE,
              r |-> Send(noStore(r1), 401, [error |-> "Unauthorized"])]

requireApiAccess(r) ==
    LET r1 == Logged(r, "requireApiAccess")
    IN  IF AccessAllowed(r.authorization)
        THEN [next |-> TRUE, r |-> r1]
        ELSE [next |-> FALSE,
              r |-> Send(noStore(r1), 401, [error |-> "Unauthorized"])]

ClientIp(c) ==
    IF Truthy(c.ip) THEN c.ip
    ELSE IF Truthy(c.remoteAddress) THEN c.remoteAddress ELSE "unknown"

\* variant: the key is the client address alone
RouteKey_ClientOnly(c, path) == ClientIp(c)

RouteKey(c, path) == ClientIp(c) \o ":" \o path

WindowOpen(store, key, now) ==
    Has(store, key) /\ ~(now > store[key].resetAt)

SetKey(store, key, val) ==
    [k \in DOMAIN store \cup {key} |-> IF k = key THEN val ELSE store[k]]

\* variant: > in place of >= in the test against RATE_LIMIT_MAX
rateLimit_OffByOne(r, store, now) ==
    LET key == RouteKey(r.client, r.path)
        r1 == Logged(r, "rateLimit")
    IN  IF ~WindowOpen(store, key, now)
        THEN [next |-> TRUE, r |-> r1,
              store |-> SetKey(store, key,
                           [count |-> 1, resetAt |-> now + RATE_LIMIT_WINDOW_MS])]
        ELSE IF store[key].count > RATE_LIMIT_MAX
        THEN [next |-> FALSE, store |-> store,
              r |-> Send(noStore(r1), 429, [error |-> "Too Many Requests"])]
        ELSE [next |-> TRUE, r |-> r1,
              store |-> [store EXCEPT ![key].count = @ + 1]]

\* variant: the request that opens a window is not counted
rateLimit_StartAtZero(r, store, now) ==
    LET key == RouteKey(r.client, r.path)
        r1 == Logged(r, "rateLimit")
    IN  IF ~WindowOpen(store, key, now)
        THEN [next |-> TRUE, r |-> r1,
              store |-> SetKey(store, key,
                           [count |-> 0, resetAt |-> now + RATE_LIMIT_WINDOW_MS])]
        ELSE IF store[key].count >= RATE_LIMIT_MAX
        THEN [next |-> FALSE, store |-> store,
              r |-> Send(noStore(r1), 429, [error |-> "Too Many Requests"])]
        ELSE [next |-> TRUE, r |-> r1,
              store |-> [store EXCEPT ![key].count = @ + 1]]

\* variant: a rejection starts the window again
rateLimit_RejectExtends(r, store, now) ==
    LET key == RouteKey(r.client, r.path)
        r1 == Logged(r, "rateLimit")
    IN  IF ~WindowOpen(store, key, now)
        THEN [next |-> TRUE, r |-> r1,
              store |-> SetKey(store, key,
                           [count |-> 1, resetAt |-> now + RATE_LIMIT_WINDOW_MS])]
        ELSE IF store[key].count >= RATE_LIMIT_MAX
        THEN [next |-> FALSE,
              store |-> [store EXCEPT ![key].resetAt = now + RATE_LIMIT_WINDOW_MS],
              r |-> Send(noStore(r1), 429, [error |-> "Too Many Requests"])]
        ELSE [next |-> TRUE, r |-> r1,
              store |-> [store EXCEPT ![key].count = @ + 1]]

rateLimit(r, store, now) ==
    LET key == RouteKey(r.client, r.path)
        r1 == Logged(r, "rateLimit")
    IN  IF ~WindowOpen(store, key, now)
        THEN [next |-> TRUE, r |-> r1,
              store |-> SetKey(store, key,
                           [count |-> 1, resetAt |-> now + RATE_LIMIT_WINDOW_MS])]
        ELSE IF store[key].count >= RATE_LIMIT_MAX
        THEN [next |-> FALSE, store |-> store,
              r |-> Send(noStore(r1), 429, [error |-> "Too Many Requests"])]
        ELSE [next |-> TRUE, r |-> r1,
              store |-> [store EXCEPT ![key].count = @ + 1]]

\* ------------------------------------------------------------ token cache
\* variant: the expiry is not looked at
CacheFresh_TokenOnly(cache, now) == Truthy(cache.accessToken)

\* variant: the comparison turned round
CacheFresh_Inverted(cache, now) ==
    Truthy(cache.accessToken) /\ now > cache.expiresAt - SAFETY_MARGIN_MS

\* variant: the 30 s margin is left out
CacheFresh_NoMargin(cache, now) ==
    Truthy(cache.accessToken) /\ now < cache.expiresAt

CacheFresh(cache, now) ==
    Truthy(cache.accessToken) /\ now < cache.expiresAt - SAFETY_MARGIN_MS

\* getAccessToken up to its first await: a cache hit returns the token and
\* fetchNowPlaying goes on to send the currently-playing call; a miss sends
\* the credential exchange.  seen is the cache as line 73 read it.
getAccessTokenStart(r, cache, now) ==
    LET r1 == [Logged(r, "getAccessToken") EXCEPT !.now = now, !.seen = cache]
    IN  IF CacheFresh(cache, now)
        THEN [Logged(r1, "playFetch") EXCEPT
                 !.accessToken = cache.accessToken, !.pc = "awaitPlay"]
        ELSE [Logged(r1, "tokenFetch") EXCEPT !.pc = "awaitToken"]

\* ---------------------------------------------------------------- routing
\* A path under /api that no app.get names falls through both middleware to
\* the framework's final handler, which answers 404 with headers of its own.
RouteHandler(r, cache, now) ==
    LET r1 == noStore(Logged(r, "handler"))
    IN  IF r.path \notin Paths
        THEN Send([Logged(r, "notFound") EXCEPT
                      !.contentType = "text/html; charset=utf-8"],
                  404, [html |-> "Cannot GET /api" \o r.path])
        ELSE IF r.path = HealthPath THEN Send(r1, 200, [ok |-> TRUE])
        ELSE IF r.path = JsonPath THEN getAccessTokenStart(r1, cache, now)
        ELSE getAccessTokenStart(
                 [r1 EXCEPT !.contentType = "text/plain; charset=utf-8"],
                 cache, now)

FreeSlots == {s \in Slots : req[s].pc = "idle"}

\* The handler of slot s has run up to its next await, or to its response:
\* an answered request leaves its slot.
Settle(s, r) ==
    IF r.pc = "done"
    THEN req' = [req EXCEPT ![s] = IdleReq] /\ sent' = r
    ELSE req' = [req EXCEPT ![s] = r] /\ sent' = IdleReq

\* variant: the two middleware in the other order
Request_AccessFirst(s, c, path, authorization) ==
    /\ s \in FreeSlots
    /\ \A t \in FreeSlots : s <= t
    /\ LET r0 == [IdleReq EXCEPT !.client = c, !.path = path,
                                 !.authorization = authorization]
           ac == requireApiAccess(r0)
           rl == rateLimit(ac.r, limiterStore, clock)
           r1 == IF ~ac.next THEN ac.r
                 ELSE IF ~rl.next THEN rl.r
                 ELSE RouteHandler(rl.r, tokenCache, clock)
       IN  /\ limiterStore' = IF ac.next THEN rl.store ELSE limiterStore
           /\ Settle(s, r1)
    /\ nreq' = IF nreq < MaxRequests THEN nreq + 1 ELSE nreq
    /\ UNCHANGED <<PUBLIC_MODE, API_KEY, clock, tokenCache>>

\* variant: requireApiAccess answers 401 and calls next() all the same
Request_HandlerAnyway(s, c, path, authorization) ==
    /\ s \in FreeSlots
    /\ \A t \in FreeSlots : s <= t
    /\ LET r0 == [IdleReq EXCEPT !.client = c, !.path = path,
                                 !.authorization = authorization]
           rl == rateLimit(r0, limiterStore, clock)
           ac == requireApiAccess(rl.r)
           ran == RouteHandler(Logged(rl.r, "requireApiAccess"),
                               tokenCache, clock)
           r1 == IF ~rl.next THEN rl.r
                 ELSE IF ~ac.next
                 THEN [ran EXCEPT !.pc = "done", !.status = 401,
                                  !.body = [error |-> "Unauthorized"]]
                 ELSE ran
       IN  /\ limiterStore' = rl.store
           /\ Settle(s, r1)
    /\ nreq' = IF nreq < MaxRequests THEN nreq + 1 ELSE nreq
    /\ UNCHANGED <<PUBLIC_MODE, API_KEY, clock, tokenCache>>

\* An inbound request arrives on /api: app.use("/api", rateLimit,
\* requireApiAccess), then the route handler up to its first await.
Request(s, c, path, authorization) ==
    /\ s \in FreeSlots
    /\ \A t \in FreeSlots : s <= t
    /\ LET r0 == [IdleReq EXCEPT !.client = c, !.path = path,
                                 !.authorization = authorization]
           rl == rateLimit(r0, limiterStore, clock)
           ac == requireApiAccess(rl.r)
           r1 == IF ~rl.next THEN rl.r
                 ELSE IF ~ac.next THEN ac.r
                 ELSE RouteHandler(ac.r, tokenCache, clock)
       IN  /\ limiterStore' = rl.store
           /\ Settle(s, r1)
    /\ nreq' = IF nreq < MaxRequests THEN nreq + 1 ELSE nreq
    /\ UNCHANGED <<PUBLIC_MODE, API_KEY, clock, tokenCache>>

\* ------------------------------------------------- outcome of a handler
\* variant: the catch block forgets status(502)
Fail_Status200(r, message) ==
    IF r.path = JsonPath
    THEN Send(r, 200, [error |-> IF message # "" THEN message
                                 ELSE "Upstream error"])
    ELSE Send(r, 200, [text |-> ""])

\* variant: the catch block of the route sends nothing
Fail_NoAnswer(r, message) == [r EXCEPT !.pc = "caught"]

\* the catch block of the route: 502, with the message on the JSON route
Fail(r, message) ==
    IF r.path = JsonPath
    THEN Send(r, 502, [error |-> IF message # "" THEN message
                                 ELSE "Upstream error"])
    ELSE Send(r, 502, [text |-> ""])

\* the separator of the text route, the character the source writes \u2014
EmDash == "\\u2014"

\* variant: the text route writes the line whenever there is a track
Succeed_TextWhenItem(r, payload) ==
    IF r.path = JsonPath THEN Send(r, 200, payload)
    ELSE IF ~Has(payload, "track") THEN Send(r, 200, [text |-> ""])
    ELSE Send(r, 200, [text |-> payload.track \o " " \o EmDash \o " "
                                        \o payload.artist])

\* the try block of the route once fetchNowPlaying has returned payload
Succeed(r, payload) ==
    IF r.path = JsonPath THEN Send(r, 200, payload)
    ELSE IF ~payload.is_playing THEN Send(r, 200, [text |-> ""])
    ELSE Send(r, 200, [text |-> payload.track \o " " \o EmDash \o " "
                                        \o payload.artist])

Ok(status) == status >= 200 /\ status <= 299

\* ------------------------------------------------------------ normalising
StrOr(d, f) == IF Has(d, f) /\ Truthy(d[f]) THEN d[f] ELSE ""

\* Number.isFinite(v): v is a number (JSON has no NaN and no infinity)
IsFinite(v) == "number" \in DOMAIN v

\* variant: whatever the upstream sent is passed on
NumOr_AnyValue(d, f) == IF Has(d, f) THEN d[f] ELSE Num(0)

NumOr(d, f) == IF Has(d, f) /\ IsFinite(d[f]) THEN d[f] ELSE Num(0)

RECURSIVE Join(_, _)
Join(names, sep) ==
    IF names = << >> THEN ""
    ELSE IF Len(names) = 1 THEN names[1]
    ELSE names[1] \o sep \o Join(Tail(names), sep)

\* variant: the names are taken from the last artist to the first
ArtistNames_Reversed(item) ==
    IF Has(item, "artists")
    THEN [i \in 1..Len(item.artists) |->
             LET a == item.artists[Len(item.artists) + 1 - i]
             IN  IF Has(a, "name") THEN a.name ELSE ""]
    ELSE << >>

ArtistNames(item) ==
    IF Has(item, "artists")
    THEN [i \in 1..Len(item.artists) |->
             IF Has(item.artists[i], "name") THEN item.artists[i].name ELSE ""]
    ELSE << >>

\* variant: without an item the upstream playing flag is passed on
mapNowPlaying_UpstreamFlag(data) ==
    IF data = JsonNull \/ ~Has(data, "item")
    THEN [is_playing |-> data # JsonNull /\ Has(data, "is_playing")
                         /\ data.is_playing = TRUE,
          track |-> "", artist |-> ""]
    ELSE LET item == data.item
         IN  [ is_playing |-> Has(data, "is_playing") /\ data.is_playing = TRUE,
               is_paused |-> Has(data, "is_playing") /\ data.is_playing = FALSE,
               track |-> StrOr(item, "name"),
               artist |-> Join(ArtistNames(item), ", "),
               album |-> IF Has(item, "album") THEN StrOr(item.album, "name")
                         ELSE "",
               artwork_url |->
                   IF Has(item, "album") /\ Has(item.album, "images")
                      /\ Len(item.album.images) >= 1
                   THEN StrOr(item.album.images[1], "url") ELSE "",
               url |-> IF Has(item, "external_urls")
                       THEN StrOr(item.external_urls, "spotify") ELSE "",
               id |-> StrOr(item, "id"),
               progress_ms |-> NumOr(data, "progress_ms"),
               duration_ms |-> NumOr(item, "duration_ms") ]

mapNowPlaying(data) ==
    IF data = JsonNull \/ ~Has(data, "item")
    THEN [is_playing |-> FALSE]
    ELSE LET item == data.item
         IN  [ is_playing |-> Has(data, "is_playing") /\ data.is_playing = TRUE,
               is_paused |-> Has(data, "is_playing") /\ data.is_playing = FALSE,
               track |-> StrOr(item, "name"),
               artist |-> Join(ArtistNames(item), ", "),
               album |-> IF Has(item, "album") THEN StrOr(item.album, "name")
                         ELSE "",
               artwork_url |->
                   IF Has(item, "album") /\ Has(item.album, "images")
                      /\ Len(item.album.images) >= 1
                   THEN StrOr(item.album.images[1], "url") ELSE "",
               url |-> IF Has(item, "external_urls")
                       THEN StrOr(item.external_urls, "spotify") ELSE "",
               id |-> StrOr(item, "id"),
               progress_ms |-> NumOr(data, "progress_ms"),
               duration_ms |-> NumOr(item, "duration_ms") ]

\* variant: a refused exchange is sent a second time
TokenResponse_RetryOnce(s, status) ==
    /\ req[s].pc = "awaitToken"
    /\ LET r == [req[s] EXCEPT !.tokenStatus = status]
       IN  IF ~Ok(status) /\ req[s].tokenStatus = 0
           THEN Settle(s, Logged(r, "tokenFetch"))
           ELSE IF ~Ok(status)
           THEN Settle(s, Fail(r, "Spotify token refresh failed ("
                                      \o ToString(status) \o ")"))
           ELSE Settle(s, [r EXCEPT !.pc = "awaitTokenJson"])
    /\ UNCHANGED <<PUBLIC_MODE, API_KEY, clock, tokenCache, limiterStore, nreq>>

\* --------------------------------------------------- upstream answers
\* The token endpoint answers: getAccessToken resumes after its fetch.
TokenResponse(s, status) ==
    /\ req[s].pc = "awaitToken"
    /\ LET r == [req[s] EXCEPT !.tokenStatus = status]
       IN  IF ~Ok(status)
           THEN Settle(s, Fail(r, "Spotify token refresh failed ("
                                      \o ToString(status) \o ")"))
           ELSE Settle(s, [r EXCEPT !.pc = "awaitTokenJson"])
    /\ UNCHANGED <<PUBLIC_MODE, API_KEY, clock, tokenCache, limiterStore, nreq>>

ValidTokenData(data) ==
    /\ Has(data, "access_token") /\ Truthy(data.access_token)
    /\ Has(data, "expires_in") /\ data.expires_in # 0

\* variant: the cache is written before the body is validated
TokenJson_StoreFirst(s, data) ==
    /\ req[s].pc = "awaitTokenJson"
    /\ tokenCache' =
           [accessToken |-> IF Has(data, "access_token") THEN data.access_token
                            ELSE Undefined,
            expiresAt |-> IF Has(data, "expires_in")
                          THEN req[s].now + data.expires_in * 1000 ELSE 0]
    /\ LET r == [req[s] EXCEPT !.tokenData = data]
       IN  IF ~ValidTokenData(data)
           THEN Settle(s, Fail(r, "Spotify token refresh returned invalid payload"))
           ELSE Settle(s, [Logged(r, "playFetch") EXCEPT
                              !.accessToken = data.access_token,
                              !.pc = "awaitPlay"])
    /\ UNCHANGED <<PUBLIC_MODE, API_KEY, clock, limiterStore, nreq>>

\* variant: the later of the two expiries is kept
TokenJson_KeepLaterExpiry(s, data) ==
    /\ req[s].pc = "awaitTokenJson"
    /\ LET r == [req[s] EXCEPT !.tokenData = data]
           expiresAt == r.now + data.expires_in * 1000
       IN  IF ~ValidTokenData(data)
           THEN /\ Settle(s, Fail(r, "Spotify token refresh returned invalid payload"))
                /\ tokenCache' = tokenCache
           ELSE /\ tokenCache' = [accessToken |-> data.access_token,
                                  expiresAt |-> IF tokenCache.expiresAt > expiresAt
                                                THEN tokenCache.expiresAt
                                                ELSE expiresAt]
                /\ Settle(s, [Logged(r, "playFetch") EXCEPT
                                 !.accessToken = data.access_token,
                                 !.pc = "awaitPlay"])
    /\ UNCHANGED <<PUBLIC_MODE, API_KEY, clock, limiterStore, nreq>>

\* variant: the expiry is counted from the time the answer is processed
TokenJson_NowAtWrite(s, data) ==
    /\ req[s].pc = "awaitTokenJson"
    /\ LET r == [req[s] EXCEPT !.tokenData = data]
       IN  IF ~ValidTokenData(data)
           THEN /\ Settle(s, Fail(r, "Spotify token refresh returned invalid payload"))
                /\ tokenCache' = tokenCache
           ELSE /\ tokenCache' = [accessToken |-> data.access_token,
                                  expiresAt |-> clock + data.expires_in * 1000]
                /\ Settle(s, [Logged(r, "playFetch") EXCEPT
                                 !.accessToken = data.access_token,
                                 !.pc = "awaitPlay"])
    /\ UNCHANGED <<PUBLIC_MODE, API_KEY, clock, limiterStore, nreq>>

\* The body of the token answer is parsed: validate, store, return, and
\* fetchNowPlaying sends the currently-playing call.
TokenJson(s, data) ==
    /\ req[s].pc = "awaitTokenJson"
    /\ LET r == [req[s] EXCEPT !.tokenData = data]
       IN  IF ~ValidTokenData(data)
           THEN /\ Settle(s, Fail(r, "Spotify token refresh returned invalid payload"))
                /\ tokenCache' = tokenCache
           ELSE /\ tokenCache' = [accessToken |-> data.access_token,
                                  expiresAt |-> r.now + data.expires_in * 1000]
                /\ Settle(s, [Logged(r, "playFetch") EXCEPT
                                 !.accessToken = data.access_token,
                                 !.pc = "awaitPlay"])
    /\ UNCHANGED <<PUBLIC_MODE, API_KEY, clock, limiterStore, nreq>>

\* The currently-playing endpoint answers.
PlayResponse(s, status) ==
    /\ req[s].pc = "awaitPlay"
    /\ LET r == [req[s] EXCEPT !.playStatus = status]
       IN  IF status = 204 THEN Settle(s, Succeed(r, [is_playing |-> FALSE]))
           ELSE IF ~Ok(status)
           THEN Settle(s, Fail(r, "Spotify currently-playing fetch failed ("
                                      \o ToString(status) \o ")"))
           ELSE Settle(s, [r EXCEPT !.pc = "awaitPlayJson"])
    /\ UNCHANGED <<PUBLIC_MODE, API_KEY, clock, tokenCache, limiterStore, nreq>>

\* The body of the currently-playing answer is parsed and normalised.
PlayJson(s, data) ==
    /\ req[s].pc = "awaitPlayJson"
    /\ Settle(s, Succeed([req[s] EXCEPT !.playData = data], mapNowPlaying(data)))
    /\ UNCHANGED <<PUBLIC_MODE, API_KEY, clock, tokenCache, limiterStore, nreq>>

\* A pending fetch or body read rejects (connection lost, body not JSON).
UpstreamReject(s) ==
    /\ req[s].pc \in {"awaitToken", "awaitTokenJson", "awaitPlay", "awaitPlayJson"}
    /\ Settle(s, Fail(req[s], "fetch failed"))
    /\ UNCHANGED <<PUBLIC_MODE, API_KEY, clock, tokenCache, limiterStore, nreq>>

\* Time passes.
Tick ==
    /\ clock < EndMs
    /\ clock' = clock + TickMs
    /\ sent' = IdleReq
    /\ UNCHANGED <<PUBLIC_MODE, API_KEY, tokenCache, limiterStore, req, nreq>>

\* One step of the service in an environment e: the requests that arrive
\* (e.clients, e.paths, e.auths, on the slots e.slots, at most MaxRequests of
\* them when e.capped) and the answers the upstream gives.
NextIn(e) ==
    \/ \E s \in e.slots, c \in e.clients, p \in e.paths, a \in e.auths :
           (e.capped => nreq < MaxRequests) /\ Request(s, c, p, a)
    \/ \E s \in e.slots, st \in e.tokenStatuses : TokenResponse(s, st)
    \/ \E s \in e.slots, d \in e.tokenDatas : TokenJson(s, d)
    \/ \E s \in e.slots, st \in e.playStatuses : PlayResponse(s, st)
    \/ \E s \in e.slots, d \in e.playDatas : PlayJson(s, d)
    \/ \E s \in e.slots : UpstreamReject(s)
    \/ Tick

Client1 == [ip |-> "10.0.0.1", remoteAddress |-> "10.0.0.1"]
GoodToken == [access_token |-> "tokA", expires_in |-> 60]
Playing == [is_playing |-> TRUE, progress_ms |-> Num(1000), item |-> Item1]

\* The whole pipeline, every kind of answer once.
Env ==
    [ slots |-> Slots, capped |-> TRUE,
      clients |-> {Client1}, paths |-> Paths,
      auths |-> {Undefined, "Bearer s3cret"},
      tokenStatuses |-> {200, 500},
      tokenDatas |-> {GoodToken, [expires_in |-> 60]},
      playStatuses |-> {200, 204, 500},
      playDatas |-> {Playing, [is_playing |-> TRUE]} ]

Next == NextIn(Env)

Spec == Init /\ [][Next]_vars

\* The service started with the defaults: public, no shared secret.
InitOpen == Init /\ PUBLIC_MODE /\ API_KEY = Undefined

\* The token manager against every answer of the token endpoint.
EnvToken ==
    [ slots |-> Slots, capped |-> TRUE,
      clients |-> {Client1}, paths |-> {JsonPath},
      auths |-> {Undefined},
      tokenStatuses |-> TokenStatuses, tokenDatas |-> TokenDatas,
      playStatuses |-> {200}, playDatas |-> {Playing} ]

NextToken == NextIn(EnvToken)

SpecToken == InitOpen /\ [][NextToken]_vars

\* The fetcher against every answer of the currently-playing endpoint, one
\* request at a time.
EnvFetch ==
    [ slots |-> {1}, capped |-> TRUE,
      clients |-> {Client1}, paths |-> {JsonPath, TextPath},
      auths |-> {Undefined},
      tokenStatuses |-> {200, 500},
      tokenDatas |-> {GoodToken, [expires_in |-> 60]},
      playStatuses |-> PlayStatuses, playDatas |-> PlayDatas ]

NextFetch == NextIn(EnvFetch)

SpecFetch == InitOpen /\ [][NextFetch]_vars

\* The gate against every route, header and configuration, one request at
\* a time.
EnvGate ==
    [ slots |-> {1}, capped |-> TRUE,
      clients |-> {Client1}, paths |-> Paths, auths |-> AuthHeaders,
      tokenStatuses |-> {200}, tokenDatas |-> {GoodToken},
      playStatuses |-> {200}, playDatas |-> {Playing} ]

NextGate == NextIn(EnvGate)

SpecGate == Init /\ [][NextGate]_vars

\* One client floods /api/health: no cap on the requests.
NextHealthFlood ==
    \/ \E a \in AuthHeaders : Request(1, Client1, HealthPath, a)
    \/ Tick

SpecHealthFlood == Init /\ [][NextHealthFlood]_vars

\* One client floods /api/now-playing, one request at a time.
EnvPlayFlood ==
    [ slots |-> {1}, capped |-> FALSE,
      clients |-> {Client1}, paths |-> {JsonPath},
      auths |-> {Undefined, "Bearer s3cret"},
      tokenStatuses |-> {200}, tokenDatas |-> {GoodToken},
      playStatuses |-> {200}, playDatas |-> {Playing} ]

NextPlayFlood == NextIn(EnvPlayFlood)

SpecPlayFlood == Init /\ [][NextPlayFlood]_vars

\* Every path under /api, with and without a route, one request at a time.
EnvRoutes ==
    [ slots |-> {1}, capped |-> TRUE,
      clients |-> {Client1}, paths |-> Paths \cup {OtherPath},
      auths |-> {Undefined, "Bearer s3cret"},
      tokenStatuses |-> {200, 500},
      tokenDatas |-> {GoodToken, [expires_in |-> 60]},
      playStatuses |-> {200, 204, 500},
      playDatas |-> {Playing, [is_playing |-> TRUE]} ]

NextRoutes == NextIn(EnvRoutes)

SpecRoutes == Init /\ [][NextRoutes]_vars

\* One client floods /api/health while another client asks for the same
\* route and the flooding client asks for another route, once a window each.
Client2 == [ip |-> Undefined, remoteAddress |-> "10.0.0.2"]

OtherKeys == { [client |-> Client2, path |-> HealthPath],
               [client |-> Client1, path |-> JsonPath] }

\* the key has no window open: its request will start one
Quiet(k) == ~WindowOpen(limiterStore, RouteKey(k.client, k.path), clock)

NextKeys ==
    \/ \E s \in Slots : Request(s, Client1, HealthPath, Undefined)
    \/ \E s \in Slots, k \in OtherKeys :
           /\ Quiet(k)
           /\ k.path = JsonPath => s = 1
           /\ Request(s, k.client, k.path, Undefined)
    \/ TokenResponse(1, 200)
    \/ TokenJson(1, GoodToken)
    \/ PlayResponse(1, 200)
    \/ PlayJson(1, Playing)
    \/ Tick

SpecKeys == InitOpen /\ [][NextKeys]_vars

\* Requests that overlap, with every outcome but 429 (401 when a secret is
\* configured, 200, and 502 when a fetch or a body read rejects): a request
\* for /api/health or /api/now-playing.txt, and one for /api/now-playing
\* arriving while it is in flight.  The upstream answers every call it is sent: each pending fetch or
\* body read of a slot eventually resolves or rejects.
LiveSlots == {1, 2}

\* the upstream, or the network, ends the wait of the request in slot s
UpstreamReturns(s) ==
    \/ TokenResponse(s, 200)
    \/ TokenJson(s, GoodToken)
    \/ PlayResponse(s, 200)
    \/ PlayJson(s, Playing)
    \/ UpstreamReject(s)

NextLive ==
    \/ \E p \in {HealthPath, TextPath} :
           nreq < MaxRequests /\ Request(1, Client1, p, Undefined)
    \/ (nreq < MaxRequests /\ Request(2, Client1, JsonPath, Undefined))
    \/ \E s \in LiveSlots : UpstreamReturns(s)
    \/ Tick

\* The service started in public mode, with or without a shared secret.
InitPublic == Init /\ PUBLIC_MODE

SpecLive ==
    /\ InitPublic /\ [][NextLive]_vars
    /\ \A s \in LiveSlots : WF_vars(UpstreamReturns(s))

\* ---------------------------------------------------------------- claims
\* the requests in flight and the one answered by the step just taken
Records == {req[s] : s \in Slots} \cup {sent}

Count(log, ev) == Cardinality({i \in 1..Len(log) : log[i] = ev})

Called(r, ev) == Count(r.log, ev) > 0

\* C1: a getAccessToken call that finds a cached token with the time
\* strictly below expiresAt - 30000 returns that token and sends no
\* credential exchange (so a second call in that interval never does).
C1_CacheHit ==
    \A r \in Records :
        ( /\ Called(r, "getAccessToken")
          /\ r.seen.accessToken \notin {Null, Undefined, ""}
          /\ r.now < r.seen.expiresAt - 30000 )
        => /\ ~Called(r, "tokenFetch")
           /\ r.accessToken = r.seen.accessToken
           /\ r.tokenStatus = 0

\* a second call was served from the token the first one cached
C1_Witness ==
    \E s \in Slots :
        /\ req[s].pc = "awaitPlay"
        /\ req[s].seen.accessToken = "tokA"
        /\ req[s].now < req[s].seen.expiresAt - 30000
        /\ req[s].accessToken = "tokA"
        /\ ~Called(req[s], "tokenFetch")

TokenStage == {"awaitToken", "awaitTokenJson"}

\* the request of slot s as the step leaves it
After(s) == IF req'[s].pc = "idle" THEN sent' ELSE req'[s]

\* the exchange of the request in slot s ends with this step
ExchangeEnds(s) == req[s].pc \in TokenStage /\ req'[s].pc \notin TokenStage

\* the call found no token, or one whose expiry has passed
FoundExpired(r) ==
    /\ Called(r, "getAccessToken")
    /\ (r.seen.accessToken = Null \/ r.now >= r.seen.expiresAt)

\* what a successful exchange answered
Exchanged(r) ==
    /\ r.tokenStatus >= 200 /\ r.tokenStatus <= 299
    /\ "access_token" \in DOMAIN r.tokenData
    /\ "expires_in" \in DOMAIN r.tokenData
    /\ r.tokenData.access_token # ""
    /\ r.tokenData.expires_in # 0

ExchangeResult(r) ==
    [accessToken |-> r.tokenData.access_token,
     expiresAt |-> r.now + r.tokenData.expires_in * 1000]

\* C2 as stated: a call that finds no token or an expired one sends exactly
\* one credential exchange, and the cache then holds the result of it.
C2_Original ==
    [][ /\ \A r \in Records' : FoundExpired(r) => Count(r.log, "tokenFetch") = 1
        /\ \A s \in Slots :
               (ExchangeEnds(s) /\ FoundExpired(After(s)))
               => /\ "access_token" \in DOMAIN After(s).tokenData
                  /\ "expires_in" \in DOMAIN After(s).tokenData
                  /\ tokenCache' = ExchangeResult(After(s)) ]_vars

\* C2 amended: a call that finds no token or an expired one sends exactly
\* one credential exchange; the cache takes the result of it when the
\* exchange answers with success and a usable body, and stays as it was
\* otherwise.
C2_RefreshOnExpiry ==
    [][ /\ \A r \in Records' : FoundExpired(r) => Count(r.log, "tokenFetch") = 1
        /\ \A s \in Slots :
               (ExchangeEnds(s) /\ FoundExpired(After(s)))
               => IF Exchanged(After(s))
                  THEN tokenCache' = ExchangeResult(After(s))
                  ELSE tokenCache' = tokenCache ]_vars

\* a call found an expired token and its exchange replaced it
C2_Witness ==
    \E s \in Slots :
        /\ req[s].pc = "awaitPlay"
        /\ req[s].seen.accessToken = "tokA"
        /\ req[s].now >= req[s].seen.expiresAt
        /\ Count(req[s].log, "tokenFetch") = 1
        /\ req[s].tokenData.access_token = "tokB"
        /\ tokenCache = [accessToken |-> "tokB", expiresAt |-> req[s].now + 90000]

\* the text m holds the decimal digits of the status code
Carries(m, status) ==
    LET code == ToString(status)
    IN  \E i \in 1..Len(m) :
            /\ i + Len(code) - 1 <= Len(m)
            /\ SubSeq(m, i, i + Len(code) - 1) = code

\* this step gave the request of slot s a non-success answer of the token
\* endpoint
TokenRefused(s) ==
    /\ req[s].pc = "awaitToken"
    /\ After(s).tokenStatus # 0
    /\ ~(After(s).tokenStatus >= 200 /\ After(s).tokenStatus <= 299)

\* this step gave the request of slot s a token body without the access
\* token or without the lifetime
TokenBodyLacking(s) ==
    /\ req[s].pc = "awaitTokenJson"
    /\ After(s).tokenData # NoData
    /\ \/ "access_token" \notin DOMAIN After(s).tokenData
       \/ "expires_in" \notin DOMAIN After(s).tokenData

\* C8: a non-success answer of the token endpoint, or a success answer whose
\* body lacks the access token or the lifetime, makes getAccessToken fail
\* (the request ends 502, with the status code in the message in the
\* non-success case, and no currently-playing call is sent), and the token
\* cache is only ever written by a step that completes a valid exchange.
C8_FailedExchange ==
    [][ /\ \A s \in Slots :
               (TokenRefused(s) \/ TokenBodyLacking(s))
               => /\ After(s).pc = "done"
                  /\ After(s).status = 502
                  /\ DOMAIN After(s).body = {"error"}
                  /\ ~Called(After(s), "playFetch")
                  /\ TokenRefused(s)
                         => Carries(After(s).body.error, After(s).tokenStatus)
                  /\ tokenCache' = tokenCache
        /\ tokenCache' # tokenCache
               => \E s \in Slots :
                      /\ req[s].pc = "awaitTokenJson"
                      /\ Exchanged(After(s))
                      /\ tokenCache' = ExchangeResult(After(s)) ]_vars

\* an exchange answered without the access token while a token was cached:
\* the request failed and the cached token is still there
C8_Witness ==
    /\ sent.status = 502
    /\ sent.tokenStatus = 200
    /\ sent.tokenData = [expires_in |-> 60]
    /\ sent.seen.accessToken = "tokA"
    /\ tokenCache = sent.seen

\* the credential exchange of an answered request failed: it was sent and
\* no currently-playing call followed
ExchangeFailed(r) ==
    r.pc = "done" /\ Called(r, "tokenFetch") /\ ~Called(r, "playFetch")

\* the currently-playing call was answered with a non-success status
PlayRefused(r) ==
    /\ r.pc = "done"
    /\ r.playStatus # 0 /\ r.playStatus # 204
    /\ ~(r.playStatus >= 200 /\ r.playStatus <= 299)

\* C9 as stated: on /api/now-playing every failed exchange and every
\* non-success answer of the currently-playing call ends in 502 with a body
\* {error: message} whose message carries the upstream status code (stated
\* for the exchanges the token endpoint answered, where there is one).
C9_Original ==
    ( /\ sent.path = JsonPath
      /\ \/ ExchangeFailed(sent) /\ sent.tokenStatus # 0
         \/ PlayRefused(sent) )
    => /\ sent.status = 502
       /\ DOMAIN sent.body = {"error"}
       /\ Carries(sent.body.error,
                  IF ExchangeFailed(sent) THEN sent.tokenStatus
                  ELSE sent.playStatus)

\* C9 amended: on /api/now-playing every failed exchange and every
\* non-success answer of the currently-playing call ends in 502 with a body
\* {error: message}, never a 2xx or a view; the message carries the upstream
\* status code when the upstream answered with a non-success status, and is
\* the text of the error otherwise (an unusable token body, a rejected
\* fetch).
C9_UpstreamFailure ==
    (sent.path = JsonPath /\ (ExchangeFailed(sent) \/ PlayRefused(sent)))
    => /\ sent.status = 502
       /\ DOMAIN sent.body = {"error"}
       /\ sent.body.error # ""
       /\ (ExchangeFailed(sent) /\ sent.tokenStatus # 0
              /\ ~(sent.tokenStatus >= 200 /\ sent.tokenStatus <= 299))
          => Carries(sent.body.error, sent.tokenStatus)
       /\ PlayRefused(sent) => Carries(sent.body.error, sent.playStatus)
       /\ (ExchangeFailed(sent) /\ sent.tokenData # NoData)
          => sent.body.error = "Spotify token refresh returned invalid payload"

\* the currently-playing call answered 500 and the request got 502
C9_Witness ==
    /\ sent.path = JsonPath
    /\ sent.playStatus = 500
    /\ sent.status = 502
    /\ sent.body = [error |-> "Spotify currently-playing fetch failed (500)"]

\* the currently-playing call of an answered request reported nothing
\* playing: no content, or a success body without an item
NothingPlaying(r) ==
    /\ r.pc = "done"
    /\ \/ r.playStatus = 204
       \/ /\ r.playStatus >= 200 /\ r.playStatus <= 299
          /\ r.playData # NoData
          /\ "item" \notin DOMAIN r.playData

EmptyView ==
    [ is_playing |-> FALSE, track |-> "", artist |-> "", album |-> "",
      artwork_url |-> "", url |-> "", id |-> "",
      progress_ms |-> Num(0), duration_ms |-> Num(0) ]

\* C10 as stated: when nothing is playing the view has is_playing false and
\* every other field at its empty or zero default, and the answer is not an
\* error.
C10_Original ==
    NothingPlaying(sent)
    => /\ sent.status = 200
       /\ sent.path = JsonPath => sent.body = EmptyView

\* C10 amended: when nothing is playing (no content, or a success body
\* without an item, whatever its playing flag) the view is {is_playing:
\* false} and holds no other field, and the answer is 200: that view on
\* /api/now-playing, the empty text on /api/now-playing.txt.
C10_NothingPlaying ==
    NothingPlaying(sent)
    => /\ sent.status = 200
       /\ sent.path = JsonPath => sent.body = [is_playing |-> FALSE]
       /\ sent.path = TextPath => sent.body = [text |-> ""]

\* a success body with the playing flag set and no item was answered
C10_Witness ==
    /\ sent.path = JsonPath
    /\ sent.playStatus = 200
    /\ sent.playData = [is_playing |-> TRUE]
    /\ sent.status = 200
    /\ sent.body = [is_playing |-> FALSE]

\* C4: a request that reaches requireApiAccess goes on to its route handler
\* exactly when public mode is on with no secret configured, or a secret is
\* configured and the Authorization header is "Bearer " followed by it; any
\* other request is answered 401 {error: "Unauthorized"}.
C4_AccessControl ==
    \A r \in Records :
        Called(r, "requireApiAccess")
        => LET allowed ==
                   \/ (PUBLIC_MODE /\ API_KEY = Undefined)
                   \/ (API_KEY # Undefined
                          /\ r.authorization = "Bearer " \o API_KEY)
           IN  /\ allowed <=> Called(r, "handler")
               /\ ~allowed => /\ r.pc = "done"
                              /\ r.status = 401
                              /\ r.body = [error |-> "Unauthorized"]

\* public mode with a secret configured: the bare secret without the Bearer
\* prefix was refused
C4_Witness ==
    /\ PUBLIC_MODE
    /\ API_KEY = "s3cret"
    /\ sent.authorization = "s3cret"
    /\ Called(sent, "requireApiAccess")
    /\ sent.status = 401

\* a request arrives in this step
Arrives ==
    \/ req' = req /\ sent'.pc = "done"
    \/ \E s \in Slots : req[s].pc = "idle" /\ req'[s].pc # "idle"

\* the request that arrives in this step, as the step leaves it
Arrived ==
    IF req' = req THEN sent'
    ELSE req'[CHOOSE s \in Slots : req[s].pc = "idle" /\ req'[s].pc # "idle"]

\* the key of a request in the rate-limit table
KeyOf(r) ==
    (IF r.client.ip # Undefined THEN r.client.ip ELSE r.client.remoteAddress)
        \o ":" \o r.path

\* the key has a window whose resetAt has not passed
InWindow(key) ==
    key \in DOMAIN limiterStore /\ clock <= limiterStore[key].resetAt

\* the arriving request is counted: one more in its window, or the first of
\* a fresh one
Counted(key) ==
    /\ key \in DOMAIN limiterStore'
    /\ limiterStore'[key] =
           IF InWindow(key)
           THEN [count |-> limiterStore[key].count + 1,
                 resetAt |-> limiterStore[key].resetAt]
           ELSE [count |-> 1, resetAt |-> clock + 60000]

\* the request went past the rate limiter
PassedLimiter(r) == r.status # 429 /\ Called(r, "requireApiAccess")

\* the request went past access control
AccessGranted(r) ==
    \/ (PUBLIC_MODE /\ API_KEY = Undefined)
    \/ (API_KEY # Undefined /\ r.authorization = "Bearer " \o API_KEY)

\* C3: per key, a request in a window that has counted fewer than 120 is
\* allowed and counted, a request in a window that has counted 120 is
\* rejected with 429, and a request with no window or after resetAt has
\* passed is allowed and starts a window with count 1 and resetAt = now +
\* 60000; so requests 1..120 of a window pass and request 121 does not.
C3_RateLimit ==
    [][ Arrives =>
        LET r == Arrived
            key == KeyOf(r)
        IN  /\ (InWindow(key) /\ limiterStore[key].count < 120)
                   => PassedLimiter(r) /\ Counted(key)
            /\ (InWindow(key) /\ limiterStore[key].count >= 120)
                   => r.status = 429 /\ limiterStore[key].count = 120
            /\ ~InWindow(key)
                   => /\ PassedLimiter(r)
                      /\ limiterStore'[key] =
                             [count |-> 1, resetAt |-> clock + 60000] ]_vars

\* the window has counted 120 and the time is exactly its resetAt, which has
\* not passed yet: the request was rejected
C3_Witness ==
    /\ sent.status = 429
    /\ limiterStore[KeyOf(sent)].count = 120
    /\ clock = limiterStore[KeyOf(sent)].resetAt

\* the window of the key is full
Full(key) == InWindow(key) /\ limiterStore[key].count >= 120

\* C5 as stated: a health request that is not rate-limited gets {ok: true}
\* whatever the configuration and its Authorization header; a rate-limited
\* one gets 429.
C5_Original ==
    [][ (Arrives /\ Arrived.path = HealthPath) =>
        IF Full(KeyOf(Arrived)) THEN Arrived.status = 429
        ELSE /\ Arrived.status = 200
             /\ Arrived.body = [ok |-> TRUE] ]_vars

\* C5 amended: /api/health passes the same gate as every /api route: a
\* health request is counted by the rate limiter and gets 429 when its
\* window is full; one that is not rate-limited gets {ok: true} when access
\* control grants it and 401 otherwise.
C5_HealthGated ==
    [][ (Arrives /\ Arrived.path = HealthPath) =>
        IF Full(KeyOf(Arrived)) THEN Arrived.status = 429
        ELSE /\ Counted(KeyOf(Arrived))
             /\ IF AccessGranted(Arrived)
                THEN Arrived.status = 200 /\ Arrived.body = [ok |-> TRUE]
                ELSE /\ Arrived.status = 401
                     /\ Arrived.body = [error |-> "Unauthorized"] ]_vars

\* with a secret configured, the 120th health request of a window came
\* without a header: counted, and refused with 401
C5_Witness ==
    /\ API_KEY = "s3cret"
    /\ sent.path = HealthPath
    /\ sent.authorization = Undefined
    /\ sent.status = 401
    /\ limiterStore[KeyOf(sent)].count = 120

\* C7: the rate limiter runs first and access control second; a request
\* refused with 401 has been counted; and once the window of a key has
\* counted 120, a request in it gets 429 without access control being run,
\* whatever its credential.
C7_GateOrdering ==
    [][ Arrives =>
        LET r == Arrived
        IN  /\ r.log[1] = "rateLimit"
            /\ \A i \in 1..Len(r.log) : r.log[i] = "requireApiAccess" => i = 2
            /\ r.status = 401
                   => Called(r, "requireApiAccess") /\ Counted(KeyOf(r))
            /\ Full(KeyOf(r))
                   => /\ r.status = 429
                      /\ ~Called(r, "requireApiAccess")
                      /\ limiterStore' = limiterStore ]_vars

\* a request with the right credential was rejected with 429
C7_Witness ==
    /\ API_KEY = "s3cret"
    /\ sent.authorization = "Bearer s3cret"
    /\ sent.status = 429
    /\ sent.log = << "rateLimit", "send" >>

Upstream == {"tokenFetch", "playFetch"}

\* C6: in the life of every request both gate checks come before any
\* upstream call, and a request answered 429 or 401 has sent no credential
\* exchange and no currently-playing call and leaves the token cache as it
\* was.
C6_GateBeforeUpstream ==
    [][ /\ \A r \in Records' : \A i \in 1..Len(r.log) :
               r.log[i] \in Upstream
               => /\ \E j \in 1..(i - 1) : r.log[j] = "rateLimit"
                  /\ \E j \in 1..(i - 1) : r.log[j] = "requireApiAccess"
        /\ (sent'.pc = "done" /\ sent'.status \in {401, 429})
               => /\ \A i \in 1..Len(sent'.log) : sent'.log[i] \notin Upstream
                  /\ tokenCache' = tokenCache ]_vars

\* on /api/now-playing, with a token cached by an earlier request, a request
\* was rejected with 429
C6_Witness ==
    /\ sent.path = JsonPath
    /\ sent.status = 429
    /\ tokenCache.accessToken = "tokA"

\* ------------------------------------------------------------ text route
\* What the currently-playing endpoint gave the request, read off its answer
\* alone: the fetch succeeded (204, or a 2xx whose body was parsed).
FetchSucceeded(r) ==
    \/ r.playStatus = 204
    \/ (Ok(r.playStatus) /\ r.playData # NoData)

HasItem(r) ==
    /\ Ok(r.playStatus) /\ r.playStatus # 204
    /\ r.playData \notin {NoData, JsonNull}
    /\ "item" \in DOMAIN r.playData

ReportsPlaying(r) ==
    /\ HasItem(r)
    /\ "is_playing" \in DOMAIN r.playData /\ r.playData.is_playing = TRUE

NameOf(d) == IF "name" \in DOMAIN d THEN d.name ELSE ""

\* the names of a list of artists, comma separated, built from the last one
RECURSIVE CommaJoined(_)
CommaJoined(artists) ==
    IF artists = << >> THEN ""
    ELSE LET n == Len(artists)
         IN  (IF n = 1 THEN "" ELSE CommaJoined(SubSeq(artists, 1, n - 1)) \o ", ")
             \o NameOf(artists[n])

ArtistsOf(item) == IF "artists" \in DOMAIN item THEN item.artists ELSE << >>

TextLine(r) ==
    NameOf(r.playData.item) \o " \\u2014 " \o CommaJoined(ArtistsOf(r.playData.item))

\* C11: every answer of the handler of GET /api/now-playing.txt has the body
\* "<track> <em dash> <artist>" exactly when the fetch succeeded with an item
\* that is playing, and the empty body in every other case; its status is 502
\* exactly when the fetch failed and 200 otherwise.
C11_TextBody ==
    (sent.pc = "done" /\ sent.path = TextPath /\ Called(sent, "handler"))
        => /\ sent.body = [text |-> IF ReportsPlaying(sent) THEN TextLine(sent)
                                    ELSE ""]
           /\ sent.status = (IF FetchSucceeded(sent) THEN 200 ELSE 502)
           /\ sent.contentType = "text/plain; charset=utf-8"

C11_Witness ==
    /\ sent.pc = "done" /\ sent.path = TextPath
    /\ sent.status = 200
    /\ sent.body = [text |-> "Song \\u2014 Artist A, Artist B"]

\* ------------------------------------------------------------ normalised view
\* the string at d.f, d.f.g or d.f.g[1].h of the upstream item, "" when any
\* step of the path is missing
Field(d, f) == IF f \in DOMAIN d THEN d[f] ELSE ""

AlbumName(item) ==
    IF "album" \in DOMAIN item THEN Field(item.album, "name") ELSE ""

FirstImage(item) ==
    IF /\ "album" \in DOMAIN item
       /\ "images" \in DOMAIN item.album
       /\ item.album.images # << >>
    THEN Field(Head(item.album.images), "url") ELSE ""

SpotifyUrl(item) ==
    IF "external_urls" \in DOMAIN item THEN Field(item.external_urls, "spotify")
    ELSE ""

\* the number at d.f, 0 when there is no number there
Number(d, f) ==
    IF f \in DOMAIN d /\ "number" \in DOMAIN d[f] THEN d[f] ELSE [number |-> 0]

\* C12: when the upstream body has an item, the view sent on
\* /api/now-playing has is_playing equal to the upstream playing flag, artist
\* equal to the artists' names joined with ", " in upstream order, track,
\* album, artwork_url, url and id copied from the item with "" for a missing
\* string, and progress_ms and duration_ms copied with 0 for a missing number.
C12_Normalised ==
    (sent.pc = "done" /\ sent.path = JsonPath /\ HasItem(sent))
        => LET data == sent.playData
               item == data.item
               view == sent.body
           IN  /\ sent.status = 200
               /\ view.is_playing = ("is_playing" \in DOMAIN data /\ data.is_playing)
               /\ view.artist = CommaJoined(ArtistsOf(item))
               /\ view.track = NameOf(item)
               /\ view.album = AlbumName(item)
               /\ view.artwork_url = FirstImage(item)
               /\ view.url = SpotifyUrl(item)
               /\ view.id = Field(item, "id")
               /\ view.progress_ms = Number(data, "progress_ms")
               /\ view.duration_ms = Number(item, "duration_ms")

C12_Witness ==
    /\ sent.pc = "done" /\ sent.path = JsonPath /\ HasItem(sent)
    /\ sent.playData.item = Item1
    /\ sent.body.artist = "Artist A, Artist B"
    /\ sent.body.track = "Song" /\ sent.body.duration_ms = Num(200000)

\* ------------------------------------------------------------ cache header
\* C13: every response to a request for a path under /api carries
\* Cache-Control: no-store; no response path under /api omits it.
C13_NoStoreEverywhere ==
    sent.pc = "done" => sent.cacheControl = "no-store"

\* C13, on the registered routes only: health, both now-playing routes in
\* their success and 502 cases, and the 401 of the access check.
C13_NoStoreOnRoutes ==
    (sent.pc = "done" /\ sent.path \in Paths) => sent.cacheControl = "no-store"

C13_Unrouted ==
    /\ sent.pc = "done" /\ sent.path = OtherPath
    /\ sent.status = 404 /\ sent.cacheControl = ""

\* ------------------------------------------------------------ upstream calls
\* the upstream calls request r has sent so far
Calls(r) == Count(r.log, "tokenFetch") + Count(r.log, "playFetch")

\* the exchange of r was sent and did not give a token
ExchangeLost(r) ==
    r.pc = "done" /\ Called(r, "tokenFetch") /\ ~Exchanged(r)

\* C14: upstream calls are sent only by a step that handles an inbound
\* request (its arrival, or the end of its exchange), never by the passing of
\* time; one request sends at most one credential exchange and at most one
\* currently-playing call; a step in which an upstream call of a request
\* fails sends nothing, and a request whose exchange failed never sent the
\* currently-playing call.
C14_NoRetryNoBackground ==
    [][ /\ \A r \in Records' :
               /\ Count(r.log, "tokenFetch") <= 1
               /\ Count(r.log, "playFetch") <= 1
               /\ ExchangeLost(r) => ~Called(r, "playFetch")
        /\ Arrives => Calls(Arrived) <= 1
        /\ \A s \in Slots :
               req[s].pc # "idle"
               => /\ Calls(After(s)) >= Calls(req[s])
                  /\ Calls(After(s)) > Calls(req[s])
                         => /\ req[s].pc = "awaitTokenJson"
                            /\ Exchanged(After(s))
                            /\ Calls(After(s)) = Calls(req[s]) + 1
                  /\ After(s).status = 502
                         => Calls(After(s)) = Calls(req[s])
        /\ clock' # clock => (req' = req /\ tokenCache' = tokenCache) ]_vars

\* a request whose exchange was refused was answered 502 having sent that one
\* call and nothing else
C14_Witness ==
    /\ sent.pc = "done" /\ sent.status = 502
    /\ sent.tokenStatus = 500
    /\ Count(sent.log, "tokenFetch") = 1
    /\ ~Called(sent, "playFetch")

\* ------------------------------------------------------------ overlapping refresh
\* C15: requests that overlap may each find the cache empty or expired and
\* each send its own exchange; each goes on with the token its own exchange
\* returned; every write of the cache stores the token and the expiry of the
\* one response being processed, so after both the cache holds the pair of
\* the response processed last and never the token of one response with the
\* expiry of another.
C15_LastWriterWins ==
    [][ /\ \A r \in Records' :
               (Called(r, "tokenFetch") /\ Called(r, "playFetch"))
               => /\ Exchanged(r)
                  /\ r.accessToken = r.tokenData.access_token
        /\ \A s \in Slots :
               (ExchangeEnds(s) /\ Exchanged(After(s)))
               => tokenCache' = ExchangeResult(After(s))
        /\ tokenCache' # tokenCache
               => \E s \in Slots :
                      /\ ExchangeEnds(s) /\ Exchanged(After(s))
                      /\ tokenCache'.accessToken = After(s).tokenData.access_token
                      /\ tokenCache'.expiresAt =
                             After(s).now + After(s).tokenData.expires_in * 1000 ]_vars

\* two requests both found the cache empty, each exchanged and holds its own
\* token, and the cache holds the pair of one of them
C15_Witness ==
    \E s, t \in Slots :
        /\ s # t
        /\ req[s].pc = "awaitPlay" /\ req[t].pc = "awaitPlay"
        /\ req[s].seen.accessToken = Null /\ req[t].seen.accessToken = Null
        /\ Called(req[s], "tokenFetch") /\ Called(req[t], "tokenFetch")
        /\ req[s].accessToken = "tokA" /\ req[t].accessToken = "tokB"
        /\ req[s].now # req[t].now
        /\ tokenCache = ExchangeResult(req[t])
        /\ tokenCache # ExchangeResult(req[s])

\* ------------------------------------------------------------ cached token
\* the times at which the requests still in the state read the cache; the
\* most recent check of all is no earlier than any of them
CheckTimes == {r.now : r \in {q \in Records : Called(q, "getAccessToken")}}

\* C16 as stated: whenever the cache holds a token, expiresAt is more than
\* 30000 ms after the most recent cache check, hence after every check
\* known in the state: an expired token is never left in the cache.
C16_Original ==
    tokenCache.accessToken # Null
        => \A t \in CheckTimes : tokenCache.expiresAt > t + 30000

\* C16: the cache holds a token exactly when it holds an expiry written with
\* it; a token whose expiry less 30000 ms has passed may stay in the cache,
\* but a request goes on with a token it did not fetch itself only if its
\* check read that token with its time strictly below expiresAt - 30000.
C16_ExpiredNeverServed ==
    /\ (tokenCache.accessToken = Null) <=> (tokenCache.expiresAt = 0)
    /\ \A r \in Records :
           (Called(r, "playFetch") /\ ~Called(r, "tokenFetch"))
           => /\ r.seen.accessToken # Null
              /\ r.accessToken = r.seen.accessToken
              /\ r.seen.expiresAt - r.now > 30000

\* the cache holds a token past its margin; the request that found it so is
\* waiting for its own exchange
C16_Witness ==
    \E s \in Slots :
        /\ req[s].pc = "awaitToken"
        /\ req[s].seen.accessToken = "tokA"
        /\ req[s].now >= req[s].seen.expiresAt - 30000
        /\ tokenCache = req[s].seen

\* ------------------------------------------------------------ rate window
\* the step lets a request for key past the rate limiter
Allows(key) == Arrives /\ KeyOf(Arrived) = key /\ Arrived.status # 429

IsNatural(v) ==
    /\ "number" \in DOMAIN v /\ "andHalf" \notin DOMAIN v
    /\ v.number >= 0

\* the JSON view of an answered /api/now-playing request that has the fields
ViewWithNumbers(r) ==
    /\ r.pc = "done" /\ r.path = JsonPath /\ r.status = 200
    /\ {"progress_ms", "duration_ms"} \subseteq DOMAIN r.body

\* C18 as stated: in every view returned, progress_ms and duration_ms are
\* non-negative integers, whatever the upstream sent for them.
C18_Original ==
    ViewWithNumbers(sent)
        => IsNatural(sent.body.progress_ms) /\ IsNatural(sent.body.duration_ms)

\* what Number.isFinite lets through of the value at d.f
Finite(d, f) == f \in DOMAIN d /\ "number" \in DOMAIN d[f]

\* C18: in every view returned with an item, progress_ms and duration_ms are
\* numbers: the upstream value itself when that is a number, negative and
\* fractional ones included, and 0 when it is missing or not a number; so
\* each is a non-negative integer exactly when the upstream value is one or
\* is no number at all.
C18_FiniteNumbers ==
    ViewWithNumbers(sent)
        => LET data == sent.playData
               view == sent.body
           IN  /\ "number" \in DOMAIN view.progress_ms
               /\ "number" \in DOMAIN view.duration_ms
               /\ IsNatural(view.progress_ms)
                      <=> (Finite(data, "progress_ms")
                              => IsNatural(data.progress_ms))
               /\ IsNatural(view.duration_ms)
                      <=> (Finite(data.item, "duration_ms")
                              => IsNatural(data.item.duration_ms))
               /\ Finite(data, "progress_ms")
                      => view.progress_ms = data.progress_ms
               /\ Finite(data.item, "duration_ms")
                      => view.duration_ms = data.item.duration_ms

\* a view was sent with a negative progress and a negative duration
C18_Witness ==
    /\ ViewWithNumbers(sent)
    /\ sent.body.progress_ms = [number |-> -5]
    /\ sent.body.duration_ms = [number |-> -1]

\* ------------------------------------------------------------ conservative expiry
\* the request went on with a token another request's refresh had cached
CacheHit(r) == Called(r, "playFetch") /\ ~Called(r, "tokenFetch")

\* C19: a getAccessToken call reads the time once, when it starts and before
\* its exchange is sent, and keeps it; the step that processes a valid answer
\* writes accessToken and expiresAt together, expiresAt being that start
\* time plus expires_in * 1000, hence no later than the time of any moment
\* after the exchange was sent plus the lifetime; and a token returned by a
\* cache hit had more than 30000 ms left before the expiresAt written so.
C19_ConservativeExpiry ==
    [][ /\ (Arrives /\ Called(Arrived, "getAccessToken")) => Arrived.now = clock
        /\ \A s \in Slots :
               req[s].pc # "idle"
               => /\ After(s).now = req[s].now
                  /\ req[s].now <= clock
        /\ \A s \in Slots :
               (ExchangeEnds(s) /\ Exchanged(After(s)))
               => LET r == After(s)
                      lifetime == r.tokenData.expires_in * 1000
                  IN  /\ tokenCache'.accessToken = r.tokenData.access_token
                      /\ tokenCache'.expiresAt = req[s].now + lifetime
                      /\ tokenCache'.expiresAt <= clock + lifetime
        /\ \A r \in Records' :
               CacheHit(r) => r.seen.expiresAt - r.now > 30000 ]_vars

\* a refresh that started at 30000 was answered later: the cache holds the
\* expiry counted from the start, earlier than one counted from the answer
C19_Witness ==
    \E s \in Slots :
        /\ req[s].pc = "awaitPlay" /\ Called(req[s], "tokenFetch")
        /\ req[s].now = StartMs /\ clock > StartMs
        /\ tokenCache = [accessToken |-> "tokB", expiresAt |-> StartMs + 90000]
        /\ req[s].accessToken = "tokB"

\* ------------------------------------------------------------ rejection frame
\* C20: a request rejected with 429 leaves the count and the resetAt of its
\* key as they were, and every other entry of the table with them: a
\* rejection neither extends the window nor adds to its count.
C20_RejectionFrame ==
    [][ (Arrives /\ Arrived.status = 429)
        => LET key == KeyOf(Arrived)
           IN  /\ key \in DOMAIN limiterStore /\ key \in DOMAIN limiterStore'
               /\ limiterStore'[key].count = limiterStore[key].count
               /\ limiterStore'[key].resetAt = limiterStore[key].resetAt
               /\ DOMAIN limiterStore' = DOMAIN limiterStore
               /\ \A k \in DOMAIN limiterStore : limiterStore'[k] = limiterStore[k]
               /\ clock <= limiterStore'[key].resetAt ]_vars

\* a request was rejected one tick after the window opened, and the window
\* still ends where it ended when it was opened
C20_Witness ==
    /\ sent.pc = "done" /\ sent.status = 429
    /\ clock = StartMs + TickMs
    /\ limiterStore[KeyOf(sent)] =
           [count |-> 120, resetAt |-> StartMs + RATE_LIMIT_WINDOW_MS]

\* ------------------------------------------------------------ key independence
\* C21: a request reads and writes only the entry of its own key: the step in
\* which it arrives leaves the count and resetAt of every other key as they
\* were and adds no other key, and it is rejected with 429 only when its own
\* key's window is full, however full the windows of other keys are.
C21_KeysIndependent ==
    [][ Arrives =>
        LET key == KeyOf(Arrived)
        IN  /\ key \in DOMAIN limiterStore'
            /\ DOMAIN limiterStore' = DOMAIN limiterStore \cup {key}
            /\ \A k \in DOMAIN limiterStore' \ {key} :
                   limiterStore'[k] = limiterStore[k]
            /\ Arrived.status = 429 <=> Full(key) ]_vars

\* the flooding client's window on /health is full; a request of the other
\* client for /health was allowed, and so was one of the flooding client
\* for /now-playing, which is still in flight
C21_Witness ==
    /\ Full("10.0.0.1:/health")
    /\ sent.pc = "done" /\ sent.status = 200
    /\ KeyOf(sent) = "10.0.0.2:/health"
    /\ limiterStore["10.0.0.2:/health"].count = 1
    /\ req[1].pc # "idle" /\ KeyOf(req[1]) = "10.0.0.1:/now-playing"
    /\ limiterStore["10.0.0.1:/now-playing"].resetAt
           > limiterStore["10.0.0.1:/health"].resetAt

\* ------------------------------------------------------------ one response
\* the request has been answered: its handler has sent and is over
Answered(r) == r.pc = "done"

\* every request of the state has sent at most once, has sent exactly when it
\* is over, with one of the four statuses, and if a gate rejected it no
\* handler ran for it and nothing was sent upstream; a request that is over
\* holds no slot, so no later step can act for it
AnsweredOnce ==
    /\ \A r \in Records' :
           /\ Count(r.log, "send") <= 1
           /\ Answered(r) <=> Count(r.log, "send") = 1
           /\ Answered(r) => /\ r.log[Len(r.log)] = "send"
                             /\ r.status \in {429, 401, 200, 502}
           /\ ~Answered(r) => r.status = 0
           /\ r.status \in {429, 401}
                  => /\ ~Called(r, "handler")
                     /\ Calls(r) = 0
    /\ \A s \in Slots : ~Answered(req'[s])

\* C22, the part that needs no fairness: every request is answered at most
\* once and a rejected request runs no handler.
C22_Safety == [][AnsweredOnce]_vars

\* C22: every request to one of the three routes is answered exactly once,
\* with 429, 401, 200 or 502, never twice and with no handler running after
\* a gate rejected it; and if every upstream call eventually returns or
\* fails, every request is eventually answered.
C22_ExactlyOneResponse ==
    /\ [][AnsweredOnce]_vars
    /\ \A s \in Slots : (req[s].pc # "idle") ~> (req[s].pc = "idle")

\* a request that waited for both upstream calls while another request was in
\* flight has been answered, once
C22_Witness ==
    /\ Answered(sent) /\ sent.status = 200
    /\ Called(sent, "tokenFetch") /\ Called(sent, "playFetch")
    /\ Count(sent.log, "send") = 1
    /\ \E s \in Slots : req[s].pc \in {"awaitToken", "awaitPlay"}

====
